---- MODULE Spec2Model ----
(***************************************************************************)
(* Aggregation of classification-evaluation metric tables                  *)
(* (src/core/eval.py): append_weighted_average,                            *)
(* combine_several_weighted_averages, create_metrics_table and             *)
(* metric_class_averages.                                                  *)
(*                                                                         *)
(* A metric table is a sequence of rows; a row is a record over the        *)
(* canonical columns.  A numeric cell is a float, modelled as an exact     *)
(* rational <<n, d>> in lowest terms with d > 0, or one of the three       *)
(* non-finite floats: <<0, 0>> (not-a-number), <<1, 0>> (+inf) and         *)
(* <<-1, 0>> (-inf).  Rounding error and the sign of zero are not          *)
(* modelled.  The tables are taken to hold floats (numpy float64 cells),   *)
(* for which a division by zero yields inf or not-a-number.                *)
(***************************************************************************)
EXTENDS Integers, Sequences, FiniteSets, TLC

VARIABLES
    pc,       \* "call": fn is about to run on input; "return": it has run
    fn,       \* the operation called
    input,    \* its argument
    output,   \* the table it returned (<<>> before the call, or when it raised)
    raised,   \* whether it ended in an exception
    runs,     \* pipeline: the run tables of the model under evaluation
    tables    \* pipeline: the combined tables of the models evaluated so far

vars == <<pc, fn, input, output, raised, runs, tables>>

(***************************************************************************)
(* Float arithmetic                                                        *)
(***************************************************************************)
NaN == <<0, 0>>

Abs(i) == IF i < 0 THEN -i ELSE i

Sign(i) == IF i < 0 THEN -1 ELSE IF i = 0 THEN 0 ELSE 1

RECURSIVE Gcd(_, _)
Gcd(a, b) == IF b = 0 THEN a ELSE Gcd(b, a % b)

\* The finite float n/d (d # 0), in lowest terms with a positive denominator.
Num(n, d) ==
    LET g == Gcd(Abs(n), Abs(d))
    IN  <<(Sign(d) * n) \div g, Abs(d) \div g>>

FromInt(i) == <<i, 1>>

IsNaN(x) == x = NaN
IsInf(x) == x[2] = 0 /\ x[1] # 0
IsFinite(x) == x[2] # 0

\* x + y
Add(x, y) ==
    IF IsNaN(x) \/ IsNaN(y) THEN NaN
    ELSE IF IsInf(x) /\ IsInf(y) THEN (IF x = y THEN x ELSE NaN)
    ELSE IF IsInf(x) THEN x
    ELSE IF IsInf(y) THEN y
    ELSE Num(x[1] * y[2] + y[1] * x[2], x[2] * y[2])

\* x * y
Mul(x, y) ==
    IF IsNaN(x) \/ IsNaN(y) THEN NaN
    ELSE IF IsInf(x) \/ IsInf(y)
         THEN (IF x[1] = 0 \/ y[1] = 0 THEN NaN
               ELSE <<Sign(x[1]) * Sign(y[1]), 0>>)
    ELSE Num(x[1] * y[1], x[2] * y[2])

\* x / y on floats: a zero divisor gives inf, or not-a-number for 0 / 0.
Div(x, y) ==
    IF IsNaN(x) \/ IsNaN(y) THEN NaN
    ELSE IF IsInf(x) /\ IsInf(y) THEN NaN
    ELSE IF IsInf(x) THEN (IF y[1] < 0 THEN <<-x[1], 0>> ELSE x)
    ELSE IF IsInf(y) THEN FromInt(0)
    ELSE IF y[1] = 0 THEN <<Sign(x[1]), 0>>
    ELSE Num(x[1] * y[2], x[2] * y[1])

(***************************************************************************)
(* pandas reductions                                                       *)
(***************************************************************************)
RECURSIVE SeqSum(_)
SeqSum(s) == IF s = <<>> THEN FromInt(0) ELSE Add(s[1], SeqSum(Tail(s)))

DropNaN(s) == SelectSeq(s, LAMBDA x : ~IsNaN(x))

\* Series.sum(): skipna = True, the sum of no value is 0.
PdSum(s) == SeqSum(DropNaN(s))

\* Series.mean(): skipna = True, the mean of no value is not-a-number.
PdMean(s) == Div(SeqSum(DropNaN(s)), FromInt(Len(DropNaN(s))))

\* Series * Series, element by element.
SeriesMul(s, t) == [i \in 1..Len(s) |-> Mul(s[i], t[i])]

(***************************************************************************)
(* Schema                                                                  *)
(***************************************************************************)
LABELS == <<"model_name", "note", "loss", "acc", "prec0", "prec1", "rec0",
            "rec1", "f1sc0", "f1sc1", "sup0", "sup1", "mcc">>

Range(s) == {s[i] : i \in 1..Len(s)}

\* metric_name[-1]: the last character of a column name.
LastChar(c) ==
    CASE c \in {"prec0", "rec0", "f1sc0", "sup0"} -> "0"
      [] c \in {"prec1", "rec1", "f1sc1", "sup1"} -> "1"
      [] c \in {"model_name", "note"} -> "e"
      [] c \in {"acc", "mcc", "prec", "rec", "f1sc"} -> "c"
      [] c = "loss" -> "s"
      [] c = "sup" -> "p"

\* df[c] as a sequence of cells.
Column(df, c) == [i \in 1..Len(df) |-> df[i][c]]

(***************************************************************************)
(* append_weighted_average                                                 *)
(***************************************************************************)
SUP0 == "sup0"
SUP1 == "sup1"

\* metrics_df.columns[2:]
MetricNames == SubSeq(LABELS, 3, Len(LABELS))

\* Mutant: every column averaged over the row count, none weighted.
WeightedAvgOf_Unweighted(metrics_df, metric_name) ==
    Div(PdSum(Column(metrics_df, metric_name)), FromInt(Len(metrics_df)))

\* Mutant: a zero sample count answered with 0 instead of dividing.
WeightedAvgOf_ZeroGuard(metrics_df, metric_name) ==
    LET w == IF LastChar(metric_name) = "0" THEN SUP0
             ELSE IF LastChar(metric_name) = "1" THEN SUP1
             ELSE "none"
        weighted_metrics ==
            IF w = "none" THEN Column(metrics_df, metric_name)
            ELSE SeriesMul(Column(metrics_df, metric_name), Column(metrics_df, w))
        sample_count ==
            IF w = "none" THEN FromInt(Len(metrics_df))
            ELSE PdSum(Column(metrics_df, w))
    IN  IF sample_count = FromInt(0) THEN FromInt(0)
        ELSE Div(PdSum(weighted_metrics), sample_count)

\* One pass of the loop over metric_names: the weighted average of a column.
WeightedAvgOf(metrics_df, metric_name) ==
    LET base == Column(metrics_df, metric_name)
        weighted_metrics ==
            IF LastChar(metric_name) = "0"
            THEN SeriesMul(base, Column(metrics_df, SUP0))
            ELSE IF LastChar(metric_name) = "1"
            THEN SeriesMul(base, Column(metrics_df, SUP1))
            ELSE base
        sample_count ==
            IF LastChar(metric_name) = "0"
            THEN PdSum(Column(metrics_df, SUP0))
            ELSE IF LastChar(metric_name) = "1"
            THEN PdSum(Column(metrics_df, SUP1))
            ELSE FromInt(Len(metrics_df))
    IN  Div(PdSum(weighted_metrics), sample_count)

\* The appended row: model_name of the first row, note "wt_avg", the averages.
WeightedAvgRow(metrics_df) ==
    [c \in Range(LABELS) |->
        IF c = "model_name" THEN metrics_df[1].model_name
        ELSE IF c = "note" THEN "wt_avg"
        ELSE WeightedAvgOf(metrics_df, c)]

\* metrics_df.loc[0, 'model_name'] raises KeyError on a table without rows.
AwaRaises(metrics_df) == Len(metrics_df) = 0

append_weighted_average(metrics_df) ==
    Append(metrics_df, WeightedAvgRow(metrics_df))

(***************************************************************************)
(* combine_several_weighted_averages                                       *)
(***************************************************************************)
NumericColumns == <<"loss", "acc", "prec0", "prec1", "rec0", "rec1", "f1sc0",
                    "f1sc1", "sup0", "sup1", "mcc">>

\* df[df['note'] == v]
SelectNote(df, v) == SelectSeq(df, LAMBDA r : r.note = v)

\* Mutant: the note of a run's row is left as it is.
RunNote_Unchanged(run) == "wt_avg"

\* f'{i+1}_wt_avg', for the 0-based position i = run - 1
RunNote(run) == ToString(run) \o "_wt_avg"

\* One pass of the loop: the "wt_avg" rows of the run's table, relabelled.
RelabelledWtAvg(df, run) ==
    LET wt_avg == SelectNote(df, "wt_avg")
    IN  [j \in 1..Len(wt_avg) |-> [wt_avg[j] EXCEPT !.note = RunNote(run)]]

\* pd.concat(list, axis=0): the rows of the tables, in order.
RECURSIVE Concat(_)
Concat(dfs) == IF dfs = <<>> THEN <<>> ELSE Head(dfs) \o Concat(Tail(dfs))

StackedWtAvgs(metric_dataframes) ==
    Concat([i \in 1..Len(metric_dataframes) |->
                RelabelledWtAvg(metric_dataframes[i], i)])

\* new_df_means: the last stacked row with the column means written over it.
MeansRow(new_df) ==
    [c \in Range(LABELS) |->
        IF c = "note" THEN "wt_avg"
        ELSE IF c \in Range(NumericColumns) THEN PdMean(Column(new_df, c))
        ELSE new_df[Len(new_df)][c]]

\* pd.concat of no table raises ValueError; new_df.iloc[-1] of no row raises
\* IndexError.
CombineRaises(metric_dataframes) ==
    \/ Len(metric_dataframes) = 0
    \/ Len(StackedWtAvgs(metric_dataframes)) = 0

combine_several_weighted_averages(metric_dataframes) ==
    LET new_df == StackedWtAvgs(metric_dataframes)
    IN  Append(new_df, MeansRow(new_df))

(***************************************************************************)
(* create_metrics_table                                                    *)
(***************************************************************************)
Two == FromInt(2)

\* Mutant: the two classes weighted by their supports.
SummaryOf_Weighted(r) ==
    LET avg(v0, v1) ==
            Div(Add(Mul(v0, r.sup0), Mul(v1, r.sup1)), Add(r.sup0, r.sup1))
    IN  [model_name |-> r.model_name, loss |-> r.loss, acc |-> r.acc,
         prec |-> avg(r.prec0, r.prec1),
         rec |-> avg(r.rec0, r.rec1),
         f1sc |-> avg(r.f1sc0, r.f1sc1)]

\* One row of new_metrics.
SummaryOf(r) ==
    [model_name |-> r.model_name, loss |-> r.loss, acc |-> r.acc,
     prec |-> Div(Add(r.prec0, r.prec1), Two),
     rec |-> Div(Add(r.rec0, r.rec1), Two),
     f1sc |-> Div(Add(r.f1sc0, r.f1sc1), Two)]

\* pd.concat of no table raises ValueError.
CmtRaises(metric_dataframes) == Len(metric_dataframes) = 0

create_metrics_table(metric_dataframes) ==
    LET metrics == SelectNote(Concat(metric_dataframes), "wt_avg")
    IN  [i \in 1..Len(metrics) |-> SummaryOf(metrics[i])]

(***************************************************************************)
(* metric_class_averages                                                   *)
(***************************************************************************)
\* remove_end_digit on the column names of the schema
remove_end_digit(x) ==
    CASE x \in {"prec0", "prec1"} -> "prec"
      [] x \in {"rec0", "rec1"} -> "rec"
      [] x \in {"f1sc0", "f1sc1"} -> "f1sc"
      [] x \in {"sup0", "sup1"} -> "sup"
      [] OTHER -> x

\* Mutant: the columns of the other class are the ones kept.
ColumnsNot_Same(digit) ==
    SelectSeq(LABELS, LAMBDA c : LastChar(c) # (IF digit = "1" THEN "0" ELSE "1"))

\* [c for c in metric_df.columns if c[-1] != digit]
ColumnsNot(digit) == SelectSeq(LABELS, LAMBDA c : LastChar(c) # digit)

\* The view of one class: the columns not of the other class, renamed, with
\* note set to the class (the integers 0 and 1 are written "0" and "1").
ClassView(row, other, cls) ==
    LET cols == ColumnsNot(other)
    IN  [n \in {remove_end_digit(c) : c \in Range(cols)} |->
            IF n = "note" THEN cls
            ELSE row[CHOOSE c \in Range(cols) : remove_end_digit(c) = n]]

\* isinstance(val, (int, float)) for the cells of a column of metrics_new: a
\* float is, the model's name (str) and the class id (a numpy integer) are not.
IsNumeric(column) == column \notin {"model_name", "note"}

\* Mutant: the ratio weights the class-1 value instead of the class-0 value.
weighted_avg_Swapped(column, x1, x2, ratio) ==
    IF column \in {"model_name", "note"} THEN <<x1, x1>>
    ELSE <<Div(Add(x1, x2), FromInt(2)),
           Div(Add(x1, Mul(x2, ratio)), Add(FromInt(1), ratio))>>

\* Mutant: a ratio that is not finite puts all the weight on class 0.
weighted_avg_Guarded(column, x1, x2, ratio) ==
    IF column \in {"model_name", "note"} THEN <<x1, x1>>
    ELSE IF ~IsFinite(ratio) THEN <<Div(Add(x1, x2), FromInt(2)), x1>>
    ELSE <<Div(Add(x1, x2), FromInt(2)),
           Div(Add(Mul(x1, ratio), x2), Add(FromInt(1), ratio))>>

\* weighted_avg(x, ratio) for column x of the two class rows:
\* <<macro_avg, weighted_avg>>
weighted_avg(column, x1, x2, ratio) ==
    IF ~IsNumeric(column) THEN <<x1, x1>>
    ELSE <<Div(Add(x1, x2), Two),
           Div(Add(Mul(x1, ratio), x2), Add(FromInt(1), ratio))>>

\* (sup0 / sup1).item() raises ValueError unless there is exactly one row.
McaRaises(metric_df) == Len(metric_df) # 1

metric_class_averages(metric_df) ==
    LET row == metric_df[1]
        support_ratio == Div(row.sup0, row.sup1)
        metric_0 == ClassView(row, "1", "0")
        metric_1 == ClassView(row, "0", "1")
        avg(k, note) ==
            [n \in DOMAIN metric_0 |->
                IF n = "note" THEN note
                ELSE weighted_avg(n, metric_0[n], metric_1[n], support_ratio)[k]]
    IN  <<metric_0, metric_1, avg(1, "macro_avg"), avg(2, "wt_avg")>>

(***************************************************************************)
(* Inputs                                                                  *)
(***************************************************************************)
MaxFolds == 2
MaxSup == 2
MaxRuns == 2
MaxModels == 2

ModelNames == {"RandomForestClassifier", "ConvNet"}

Half == Num(1, 2)
One == FromInt(1)

\* A per-class metric: undefined (the class is absent), or a number.
ClassValues == {NaN, Half, One}

\* Supports: none, one, or MaxSup samples of the class.
SupValues == {0, 1, MaxSup}

Flip(a) == IF a = Half THEN One ELSE IF a = One THEN Half ELSE a

Defined(a) == IF IsNaN(a) THEN FromInt(0) ELSE a

\* A record of the schema: class-0 metrics from a, class-1 metrics from b,
\* scalar metrics always defined.
Row(m, note, a, b, s0, s1) ==
    [model_name |-> m, note |-> note,
     loss |-> Defined(a), acc |-> Defined(b),
     prec0 |-> a, prec1 |-> b,
     rec0 |-> Flip(a), rec1 |-> Flip(b),
     f1sc0 |-> a, f1sc1 |-> b,
     sup0 |-> FromInt(s0), sup1 |-> FromInt(s1),
     mcc |-> Mul(FromInt(-1), Defined(a))]

SeqsUpTo(S, n) == UNION {[1..k -> S] : k \in 0..n}

\* The supports of the two classes in a fold: a class may be absent, and the
\* classes present may be balanced or not.
FoldSupports ==
    {<<0, 0>>, <<0, 1>>, <<1, 0>>, <<1, MaxSup>>, <<MaxSup, 1>>,
     <<MaxSup, MaxSup>>}

\* Fold records, as the measurement step returns them (note = None).
FoldRows ==
    {Row(m, "None", a, Flip(a), s[1], s[2]) :
        m \in ModelNames, a \in ClassValues, s \in FoldSupports}

FoldTables == SeqsUpTo(FoldRows, MaxFolds)

AFold == Row("ConvNet", "None", Half, One, 1, MaxSup)

\* Run tables: a "wt_avg" row alone or after a fold row, and a table without one.
RunWtRows ==
    {Row(m, "wt_avg", a, Flip(a), s0, 1) :
        m \in ModelNames, a \in ClassValues, s0 \in {1, MaxSup}}

RunTables ==
    {<<w>> : w \in RunWtRows} \cup {<<AFold, w>> : w \in RunWtRows}
        \cup {<<AFold>>}

RunLists == SeqsUpTo(RunTables, MaxRuns)

\* Tables of summary rows: a "wt_avg" row alone, and tables that mix rows of
\* other notes with none, one or two "wt_avg" rows.
SummaryRows ==
    {Row(m, "wt_avg", a, b, s0, 1) :
        m \in ModelNames, a \in ClassValues, b \in {Half, One},
        s0 \in {1, MaxSup}}

ARunRow == Row("ConvNet", "1_wt_avg", One, One, 1, 1)

SummaryTables ==
    {<<w>> : w \in SummaryRows}
        \cup {<<AFold>>,
              <<AFold, Row("ConvNet", "wt_avg", Half, One, 1, 1)>>,
              <<Row("ConvNet", "wt_avg", One, NaN, 0, 1), ARunRow,
                Row("RandomForestClassifier", "wt_avg", Half, Half, MaxSup, 1)>>}

SummaryLists == SeqsUpTo(SummaryTables, MaxModels)

\* Two-class summary rows, one per table; a table of no row and of two rows.
ClassRows ==
    {Row(m, "wt_avg", a, b, s0, s1) :
        m \in ModelNames, a \in ClassValues, b \in ClassValues,
        s0 \in SupValues, s1 \in SupValues}

ClassTables == {<<r>> : r \in ClassRows} \cup {<<>>, <<AFold, AFold>>}

(***************************************************************************)
(* Calls of the four operations                                            *)
(***************************************************************************)
Call(f, inputs) ==
    /\ pc = "call"
    /\ fn = f
    /\ input \in inputs
    /\ output = <<>>
    /\ raised = FALSE
    /\ runs = <<>>
    /\ tables = <<>>

Init ==
    \/ Call("append_weighted_average", FoldTables)
    \/ Call("combine_several_weighted_averages", RunLists)
    \/ Call("create_metrics_table", SummaryLists)
    \/ Call("metric_class_averages", ClassTables)

Return(raises, result) ==
    /\ pc' = "return"
    /\ raised' = raises
    /\ output' = IF raises THEN <<>> ELSE result
    /\ UNCHANGED <<fn, input, runs, tables>>

AppendWeightedAverage ==
    /\ pc = "call"
    /\ fn = "append_weighted_average"
    /\ Return(AwaRaises(input), append_weighted_average(input))

CombineSeveralWeightedAverages ==
    /\ pc = "call"
    /\ fn = "combine_several_weighted_averages"
    /\ Return(CombineRaises(input), combine_several_weighted_averages(input))

CreateMetricsTable ==
    /\ pc = "call"
    /\ fn = "create_metrics_table"
    /\ Return(CmtRaises(input), create_metrics_table(input))

MetricClassAverages ==
    /\ pc = "call"
    /\ fn = "metric_class_averages"
    /\ Return(McaRaises(input), metric_class_averages(input))

Next ==
    \/ AppendWeightedAverage
    \/ CombineSeveralWeightedAverages
    \/ CreateMetricsTable
    \/ MetricClassAverages

Spec == Init /\ [][Next]_vars

(***************************************************************************)
(* Properties of append_weighted_average                                   *)
(***************************************************************************)
Returned(f) == pc = "return" /\ fn = f

Class0Columns == {"prec0", "rec0", "f1sc0", "sup0"}
Class1Columns == {"prec1", "rec1", "f1sc1", "sup1"}
ScalarColumns == {"loss", "acc", "mcc"}

LastRow(df) == df[Len(df)]

OneModel(df) == \A i, j \in 1..Len(df) : df[i].model_name = df[j].model_name

AllDefined(df) ==
    \A i \in 1..Len(df) : \A c \in Range(NumericColumns) : IsFinite(df[i][c])

\* sum(value_i * weight_i) / sum(weight_i) in arithmetic that propagates
\* not-a-number
SupportWeightedMean(df, c, w) ==
    Div(SeqSum([i \in 1..Len(df) |-> Mul(df[i][c], df[i][w])]),
        SeqSum(Column(df, w)))

\* sum(value_i) / N in arithmetic that propagates not-a-number
PlainMean(df, c) == Div(SeqSum(Column(df, c)), FromInt(Len(df)))

AwaContract ==
    /\ Len(input) >= 1
    /\ OneModel(input)
    /\ AllDefined(input)
    /\ SeqSum(Column(input, "sup0")) # FromInt(0)
    /\ SeqSum(Column(input, "sup1")) # FromInt(0)

\* C1: on a table of N >= 1 fold rows of one model, all values defined and
\* both support sums nonzero, append_weighted_average returns the N rows
\* unchanged and one more row: note "wt_avg", the first row's model_name, the
\* columns ending in 0 weighted by sup0, those ending in 1 by sup1, and the
\* scalar columns averaged plainly over the N rows.
C1_WeightedAverageRow ==
    (Returned("append_weighted_average") /\ AwaContract) =>
        /\ ~raised
        /\ Len(output) = Len(input) + 1
        /\ SubSeq(output, 1, Len(input)) = input
        /\ DOMAIN LastRow(output) = Range(LABELS)
        /\ LastRow(output).note = "wt_avg"
        /\ LastRow(output).model_name = input[1].model_name
        /\ \A c \in Class0Columns :
               LastRow(output)[c] = SupportWeightedMean(input, c, "sup0")
        /\ \A c \in Class1Columns :
               LastRow(output)[c] = SupportWeightedMean(input, c, "sup1")
        /\ \A c \in ScalarColumns : LastRow(output)[c] = PlainMean(input, c)

\* Two folds with different positive supports and different values, so that
\* the weighted average differs from the plain mean.
C1_Witness ==
    /\ Returned("append_weighted_average")
    /\ AwaContract
    /\ Len(input) = 2
    /\ input[1].sup0 # input[2].sup0
    /\ input[1].sup0 # FromInt(0)
    /\ input[2].sup0 # FromInt(0)
    /\ input[1].prec0 # input[2].prec0
    /\ LastRow(output).prec0 # PlainMean(input, "prec0")
    /\ LastRow(output).prec0 = SupportWeightedMean(input, "prec0", "sup0")

SomeNaN(df, c) == \E i \in 1..Len(df) : IsNaN(df[i][c])

\* C2, first half: a not-a-number in a fold's metric column makes the
\* appended row's value for that column not-a-number.
C2_AppendPropagatesNaN ==
    (Returned("append_weighted_average") /\ ~raised) =>
        \A c \in Range(NumericColumns) :
            SomeNaN(input, c) => IsNaN(LastRow(output)[c])

\* The "wt_avg" rows of the runs, in order.
RunRows(dfs) == Concat([i \in 1..Len(dfs) |-> SelectNote(dfs[i], "wt_avg")])

\* C2, second half: a not-a-number in a run's "wt_avg" row makes the grand
\* "wt_avg" row's value for that column not-a-number.
C2_CombinePropagatesNaN ==
    (Returned("combine_several_weighted_averages") /\ ~raised) =>
        \A c \in Range(NumericColumns) :
            SomeNaN(RunRows(input), c) => IsNaN(LastRow(output)[c])

\* C2: not-a-number propagates through both aggregations and is never
\* treated as zero.
C2_NaNPropagates == C2_AppendPropagatesNaN /\ C2_CombinePropagatesNaN

AllZero(df, c) == \A i \in 1..Len(df) : df[i][c] = FromInt(0)

\* C3: when every row's sup1 is 0 the call does not raise and the appended
\* row's columns ending in 1 are not-a-number; the same for sup0 and the
\* columns ending in 0.
C3_ZeroSupportIsNaN ==
    (Returned("append_weighted_average") /\ Len(input) >= 1) =>
        /\ ~raised
        /\ AllZero(input, "sup1") =>
               \A c \in Class1Columns : IsNaN(LastRow(output)[c])
        /\ AllZero(input, "sup0") =>
               \A c \in Class0Columns : IsNaN(LastRow(output)[c])

\* Two folds without class-1 samples, class 0 present, one of them with a
\* defined class-1 metric.
C3_Witness ==
    /\ Returned("append_weighted_average")
    /\ Len(input) = 2
    /\ AllZero(input, "sup1")
    /\ ~AllZero(input, "sup0")
    /\ IsFinite(input[1].prec1)
    /\ IsNaN(LastRow(output).prec1)
    /\ IsFinite(LastRow(output).prec0)

\* C9: a table whose rows carry more than one model_name ends in an error
\* and never in a table with an appended row.
C9_MixedModelsRaise ==
    (Returned("append_weighted_average") /\ ~OneModel(input)) =>
        raised /\ output = <<>>

(***************************************************************************)
(* Properties of combine_several_weighted_averages                         *)
(***************************************************************************)
\* The note "{j}_wt_avg" of the j-th run, j counted from 1.
RunLabel(j) == ToString(j) \o "_wt_avg"

OneWtAvgEach(dfs) ==
    \A i \in 1..Len(dfs) : Len(SelectNote(dfs[i], "wt_avg")) = 1

\* The rows the claim C4 describes, but for the numeric cells of the last.
CombineShape ==
    /\ ~raised
    /\ Len(output) = Len(input) + 1
    /\ \A j \in 1..Len(input) :
           output[j] =
               [SelectNote(input[j], "wt_avg")[1] EXCEPT !.note = RunLabel(j)]
    /\ LastRow(output).note = "wt_avg"
    /\ LastRow(output).model_name = output[Len(input)].model_name

\* C4: for k >= 1 run tables with exactly one "wt_avg" row each the result
\* has k + 1 rows: the runs' "wt_avg" rows in input order, relabelled
\* "{j}_wt_avg" and otherwise unchanged, then a row with note "wt_avg", the
\* model_name of the k-th row and, in every numeric column, the unweighted
\* mean of the k runs' values.
C4_CombineRows ==
    (Returned("combine_several_weighted_averages") /\ Len(input) >= 1
        /\ OneWtAvgEach(input)) =>
        /\ CombineShape
        /\ \A c \in Range(NumericColumns) :
               LastRow(output)[c] = PlainMean(RunRows(input), c)

\* What holds of C4 on the code: the same, for runs whose values are all
\* defined numbers.
C4_CombineRowsDefined ==
    (Returned("combine_several_weighted_averages") /\ Len(input) >= 1
        /\ OneWtAvgEach(input)) =>
        /\ CombineShape
        /\ AllDefined(RunRows(input)) =>
               \A c \in Range(NumericColumns) :
                   LastRow(output)[c] = PlainMean(RunRows(input), c)

(***************************************************************************)
(* Properties of create_metrics_table                                      *)
(***************************************************************************)
\* The positions of the "wt_avg" rows in a table.
WtAvgPositions(df) == {p \in 1..Len(df) : df[p].note = "wt_avg"}

\* The i-th of them, counting from 1.
NthWtAvg(df, i) ==
    CHOOSE p \in WtAvgPositions(df) :
        Cardinality({q \in WtAvgPositions(df) : q <= p}) = i

MacroAverage(v0, v1) == Div(Add(v0, v1), FromInt(2))

\* C5: create_metrics_table returns one row per input row with note
\* "wt_avg", in the order of the concatenated inputs, model_name, loss and acc
\* copied and prec, rec, f1sc the plain average of the two classes; rows with
\* the same prec0 and prec1 get the same prec whatever their supports.
C5_SummaryRows ==
    (Returned("create_metrics_table") /\ ~raised) =>
        LET all == Concat(input)
            kept(i) == all[NthWtAvg(all, i)]
        IN  /\ Len(output) = Cardinality(WtAvgPositions(all))
            /\ \A i \in 1..Len(output) :
                   /\ DOMAIN output[i] =
                          {"model_name", "loss", "acc", "prec", "rec", "f1sc"}
                   /\ output[i].model_name = kept(i).model_name
                   /\ output[i].loss = kept(i).loss
                   /\ output[i].acc = kept(i).acc
                   /\ output[i].prec = MacroAverage(kept(i).prec0, kept(i).prec1)
                   /\ output[i].rec = MacroAverage(kept(i).rec0, kept(i).rec1)
                   /\ output[i].f1sc = MacroAverage(kept(i).f1sc0, kept(i).f1sc1)
            /\ \A i, j \in 1..Len(output) :
                   (kept(i).prec0 = kept(j).prec0 /\ kept(i).prec1 = kept(j).prec1)
                       => output[i].prec = output[j].prec

\* Two kept rows with the same, different, defined prec0 and prec1 and
\* different supports, and a dropped row.
C5_Witness ==
    /\ Returned("create_metrics_table")
    /\ Len(output) = 2
    /\ Len(Concat(input)) > 2
    /\ LET all == Concat(input)
           r1 == all[NthWtAvg(all, 1)]
           r2 == all[NthWtAvg(all, 2)]
       IN  /\ r1.prec0 = r2.prec0
           /\ r1.prec1 = r2.prec1
           /\ r1.prec0 # r1.prec1
           /\ IsFinite(r1.prec0)
           /\ r1.sup0 # r2.sup0
           /\ r1.sup0 # r1.sup1
           /\ r1.model_name # r2.model_name
    /\ output[1].prec = output[2].prec

(***************************************************************************)
(* Properties of metric_class_averages                                     *)
(***************************************************************************)
\* The numeric columns of the expanded table.
ClassNumericColumns == {"loss", "acc", "prec", "rec", "f1sc", "sup", "mcc"}

\* (v0 * sup0 + v1 * sup1) / (sup0 + sup1)
DirectWeightedMean(v0, v1, sup0, sup1) ==
    Div(Add(Mul(v0, sup0), Mul(v1, sup1)), Add(sup0, sup1))

WtAvgIsDirectMean ==
    \A n \in ClassNumericColumns :
        output[4][n] =
            DirectWeightedMean(output[1][n], output[2][n],
                               input[1].sup0, input[1].sup1)

Positive(x) == IsFinite(x) /\ x[1] > 0

C7_FourRows ==
    (Returned("metric_class_averages") /\ Len(input) = 1) =>
        /\ ~raised
        /\ Len(output) = 4
        /\ [k \in 1..4 |-> output[k].note] = <<"0", "1", "macro_avg", "wt_avg">>
        /\ \A k \in 1..4 :
               /\ DOMAIN output[k] = ClassNumericColumns \cup {"model_name", "note"}
               /\ output[k].model_name = input[1].model_name
        /\ output[1].prec = input[1].prec0
        /\ output[1].rec = input[1].rec0
        /\ output[1].f1sc = input[1].f1sc0
        /\ output[1].sup = input[1].sup0
        /\ output[2].prec = input[1].prec1
        /\ output[2].rec = input[1].rec1
        /\ output[2].f1sc = input[1].f1sc1
        /\ output[2].sup = input[1].sup1
        /\ \A k \in 1..2 : \A c \in ScalarColumns : output[k][c] = input[1][c]

\* A row whose classes differ in every per-class column.
C7_Witness ==
    /\ Returned("metric_class_averages")
    /\ Len(output) = 4
    /\ IsFinite(input[1].prec0)
    /\ IsFinite(input[1].prec1)
    /\ output[1].prec # output[2].prec
    /\ output[1].sup # output[2].sup
    /\ output[1].loss # output[1].acc

ModelName(i) == "Model" \o ToString(i)

\* The fold tables of a run: one fold; two folds, one without class 1; two
\* folds without class 0.
PipelineFolds(m) ==
    {<<Row(m, "None", Half, One, 1, MaxSup)>>,
     <<Row(m, "None", One, Half, MaxSup, 1), Row(m, "None", NaN, NaN, 1, 0)>>,
     <<Row(m, "None", Half, Half, 0, 1), Row(m, "None", One, One, 0, MaxSup)>>}

InitPipeline ==
    /\ pc = "pipeline"
    /\ fn = "none"
    /\ input = <<>>
    /\ output = <<>>
    /\ raised = FALSE
    /\ runs = <<>>
    /\ tables = <<>>

\* One more run of the current model: its fold table gets its "wt_avg" row.
PipelineRun ==
    /\ pc = "pipeline"
    /\ Len(tables) < MaxModels
    /\ Len(runs) < MaxRuns
    /\ \E t \in PipelineFolds(ModelName(Len(tables) + 1)) :
           /\ ~AwaRaises(t)
           /\ runs' = Append(runs, append_weighted_average(t))
    /\ UNCHANGED <<pc, fn, input, output, raised, tables>>

\* The runs of the current model are combined; the next model follows.
PipelineCombine ==
    /\ pc = "pipeline"
    /\ runs # <<>>
    /\ ~CombineRaises(runs)
    /\ tables' = Append(tables, combine_several_weighted_averages(runs))
    /\ runs' = <<>>
    /\ UNCHANGED <<pc, fn, input, output, raised>>

\* The summary table of the models evaluated.
PipelineTable ==
    /\ pc = "pipeline"
    /\ runs = <<>>
    /\ tables # <<>>
    /\ fn' = "create_metrics_table"
    /\ input' = tables
    /\ pc' = "return"
    /\ raised' = CmtRaises(tables)
    /\ output' = IF CmtRaises(tables) THEN <<>> ELSE create_metrics_table(tables)
    /\ UNCHANGED <<runs, tables>>

NextPipeline == PipelineRun \/ PipelineCombine \/ PipelineTable

SpecPipeline == InitPipeline /\ [][NextPipeline]_vars

\* The rows of a combined table but the last: the runs' rows.
RunsOf(df) == SubSeq(df, 1, Len(df) - 1)

\* C10: every combined table of the pipeline holds exactly one row with note
\* "wt_avg", its last, the rows before it being relabelled "{j}_wt_avg"; and
\* create_metrics_table on the combined tables of m models returns m rows,
\* the i-th with the i-th model's name, its grand-mean loss and acc and the
\* class average of its grand-mean prec, rec and f1sc.
C10_PipelineOneRowPerModel ==
    /\ \A i \in 1..Len(tables) :
           /\ WtAvgPositions(tables[i]) = {Len(tables[i])}
           /\ \A j \in 1..(Len(tables[i]) - 1) : tables[i][j].note = RunLabel(j)
    /\ pc = "return" =>
           /\ ~raised
           /\ Len(output) = Len(tables)
           /\ \A i \in 1..Len(tables) :
                  LET grand == LastRow(tables[i])
                  IN  /\ output[i].model_name = ModelName(i)
                      /\ output[i].loss = PlainMean(RunsOf(tables[i]), "loss")
                      /\ output[i].acc = PlainMean(RunsOf(tables[i]), "acc")
                      /\ output[i].prec = MacroAverage(grand.prec0, grand.prec1)
                      /\ output[i].rec = MacroAverage(grand.rec0, grand.rec1)
                      /\ output[i].f1sc = MacroAverage(grand.f1sc0, grand.f1sc1)

\* Two models of two runs each, the first model's grand mean differing from
\* both of its runs.
C10_Witness ==
    /\ pc = "return"
    /\ Len(tables) = 2
    /\ Len(tables[1]) = 3
    /\ Len(tables[2]) = 3
    /\ Len(output) = 2
    /\ output[1].loss # tables[1][1].loss
    /\ output[1].loss # tables[1][2].loss
    /\ output[1].model_name # output[2].model_name

====
